---- MODULE Spec2Model ----
(***************************************************************************)
(* Job-submission pipeline of pathon-front.                                *)
(*                                                                         *)
(* pages/api/submit.ts : POST handler -- validate, uuidv4(), insert the    *)
(*                       job row into the 'jobs' table, send the payload   *)
(*                       to SQS, answer the caller.                        *)
(*                                                                         *)
(* The handler is an async function on a single-threaded event loop: the   *)
(* code between two awaits runs atomically, and every await is a point     *)
(* where other requests, the store and the queue may act.  Each action     *)
(* below is one such atomic segment, or the store's / queue's reaction to  *)
(* a request in flight.                                                    *)
(***************************************************************************)
EXTENDS Integers, Sequences, FiniteSets, Bags, TLC

(* ------------------------------ bounds --------------------------------- *)

\* number of submit calls that may be in flight together; the calls are
\* numbered in the order their requests arrive
NumCalls == 2

Calls == 1..NumCalls

\* number of times the dashboard calls fetchJobs
MaxFetches == 3

\* values uuidv4() can return; NoId stands for "no id"
UUIDs == 1..NumCalls
NoId == 0

(* --------------------------- JavaScript values ------------------------- *)

\* a JSON-decoded field of req.body; a missing key destructures to undefined
Undef == [t |-> "undefined", n |-> 0, s |-> ""]
Null == [t |-> "null", n |-> 0, s |-> ""]
Num(k) == [t |-> "number", n |-> k, s |-> ""]
Str(x) == [t |-> "string", n |-> 0, s |-> x]

\* ToBoolean: undefined, null, 0 and "" are falsy, everything else truthy
Truthy(v) ==
    CASE v.t = "undefined" -> FALSE
      [] v.t = "null" -> FALSE
      [] v.t = "number" -> v.n # 0
      [] v.t = "string" -> v.s # ""
      [] OTHER -> TRUE

\* a value after it went through JSON to a table column: a key that is
\* undefined is left out of the JSON and the column gets NULL
Column(v) == IF v.t = "undefined" THEN Null ELSE v

Body(jn, mt, ts, lr, d) ==
    [jobName |-> jn, modelType |-> mt, trainingSteps |-> ts,
     learningRate |-> lr, description |-> d]

Request(m, b) == [method |-> m, body |-> b]

\* the requests callers send: bodies that get past the handler's check ...
PassingBodies ==
    { Body(Str("run"), Str("ppo"), Num(1000), Num(1), Str("first run")),
      Body(Str("run"), Str("xyz"), Str("abc"), Undef, Undef) }

\* ... bodies that do not ...
RejectedBodies ==
    { Body(Undef, Str("ppo"), Num(1000), Num(1), Str("first run")),
      Body(Str(""), Str("ppo"), Num(1000), Undef, Undef),
      Body(Str("run"), Undef, Num(1000), Undef, Undef),
      Body(Str("run"), Str("ppo"), Undef, Undef, Undef),
      Body(Str("run"), Str("ppo"), Num(0), Undef, Undef) }

\* ... and a request with another method
Requests ==
    { Request("POST", b) : b \in PassingBodies \cup RejectedBodies }
    \cup { Request("GET", Body(Undef, Undef, Undef, Undef, Undef)) }

NoRequest == Request("", Body(Undef, Undef, Undef, Undef, Undef))

(* ------------------------------- state --------------------------------- *)

VARIABLES
    pc,             \* where each call's handler is
    req,            \* the request of each call
    connected,      \* whether the caller of each call is still connected
    jobId,          \* const jobId of each call
    error,          \* const { error } of the insert: "pending", "null", "error"
    sqsResult,      \* outcome of sqsClient.send: "pending", "ack", "throw"
    insertAttempts, \* insert requests each call has issued
    inserted,       \* id of the row the store inserted for each call
    sent,           \* message bodies each call handed to sqsClient.send
    responses,      \* responses each call sent to its caller
    store,          \* rows of the 'jobs' table, in insertion order
    queue,          \* bag of the message bodies the SQS queue holds
    issued,         \* ids uuidv4() has returned
    clock,          \* the store's clock (created_at default)
    list,           \* the call of the listing handler that is in flight
    form,           \* the JobForm component: its state and its fetch
    dash            \* the DashboardPage component: its state and its fetches

submitVars == <<pc, req, connected, jobId, error, sqsResult, insertAttempts,
                inserted, sent, responses, store, queue, issued, clock>>

clientVars == <<form, dash>>

vars == <<pc, req, connected, jobId, error, sqsResult, insertAttempts,
          inserted, sent, responses, store, queue, issued, clock,
          list, form, dash>>

\* no listing call yet
NoList ==
    [pc |-> "idle", method |-> "", error |-> "pending", data |-> <<>>,
     asked |-> <<>>, responses |-> <<>>]

\* setMessage(""): the form shows no message
NoMessage == [kind |-> "", status |-> 0]

\* no request of the form in flight
NoFetch == [url |-> "", method |-> "", body |-> <<>>]

\* JobForm as useState leaves it: empty fields, not loading, no message
NoForm ==
    [pc |-> "idle",
     jobName |-> "", modelType |-> "", trainingSteps |-> "",
     learningRate |-> "", description |-> "",
     loading |-> FALSE,
     message |-> NoMessage,
     request |-> NoFetch,
     handler |-> "",
     call |-> 0]

\* DashboardPage as useState leaves it: no jobs, loading, not refreshing;
\* fetchJobs has not been called
NoDash ==
    [jobs |-> <<>>, loading |-> TRUE, refreshing |-> FALSE,
     calls |-> 0, pending |-> 0, last |-> ""]

Init ==
    /\ pc = [c \in Calls |-> "idle"]
    /\ req = [c \in Calls |-> NoRequest]
    /\ connected = [c \in Calls |-> TRUE]
    /\ jobId = [c \in Calls |-> NoId]
    /\ error = [c \in Calls |-> "pending"]
    /\ sqsResult = [c \in Calls |-> "pending"]
    /\ insertAttempts = [c \in Calls |-> 0]
    /\ inserted = [c \in Calls |-> NoId]
    /\ sent = [c \in Calls |-> <<>>]
    /\ responses = [c \in Calls |-> <<>>]
    /\ store = <<>>
    /\ queue = EmptyBag
    /\ issued = {}
    /\ clock = 0
    /\ list = NoList
    /\ form = NoForm
    /\ dash = NoDash

(* ------------------------------ helpers -------------------------------- *)

\* res.status(s).json({ error: e })
ErrorResponse(s, e) == [status |-> s, error |-> e, message |-> "", jobId |-> NoId]

\* res.status(200).json({ message, jobId })
OkResponse(m, id) == [status |-> 200, error |-> "", message |-> m, jobId |-> id]

\* the row handed to insert([...]); created_at is left to the table default
Row(id, b) ==
    [id |-> id,
     name |-> Column(b.jobName),
     model_type |-> Column(b.modelType),
     training_steps |-> Column(b.trainingSteps),
     learning_rate |-> Column(b.learningRate),
     description |-> Column(b.description),
     status |-> "queued"]

\* a payload that leaves the description out
PayloadWithoutDescription(id, b) ==
    [jobId |-> id,
     jobName |-> b.jobName,
     modelType |-> b.modelType,
     trainingSteps |-> b.trainingSteps,
     learningRate |-> b.learningRate,
     description |-> Undef]

\* JSON.stringify(payload): the message body
Payload(id, b) ==
    [jobId |-> id,
     jobName |-> b.jobName,
     modelType |-> b.modelType,
     trainingSteps |-> b.trainingSteps,
     learningRate |-> b.learningRate,
     description |-> b.description]

\* a generator that hands out the same id again
uuidv4Repeat(used) == {1}

\* uuidv4(): a random id, taken never to repeat.  Ids are opaque and only
\* ever compared for equality, so which unused value comes back is
\* immaterial; the least one stands for all of them.
uuidv4(used) ==
    IF UUIDs \ used = {} THEN {}
    ELSE {CHOOSE u \in UUIDs \ used : \A v \in UUIDs \ used : u <= v}

\* if (!jobName || !modelType || !trainingSteps)
MissingRequired(b) ==
    \/ ~Truthy(b.jobName)
    \/ ~Truthy(b.modelType)
    \/ ~Truthy(b.trainingSteps)

\* res.status(..).json(..): the response goes out and the exchange is over
Respond(c, r) ==
    /\ responses' = [responses EXCEPT ![c] = Append(@, r)]
    /\ connected' = [connected EXCEPT ![c] = FALSE]

StoredRow(r, t) ==
    [id |-> r.id, name |-> r.name, model_type |-> r.model_type,
     training_steps |-> r.training_steps, learning_rate |-> r.learning_rate,
     description |-> r.description, status |-> r.status, created_at |-> t]

\* where a call is, and the answer it gave
Started(c) == pc[c] # "idle"
Done(c) == pc[c] = "done"
Answer(c) == responses[c][1]

(* ------------------------------ actions -------------------------------- *)

\* handler, lines 20-44, on request r: method check, validation, uuidv4(),
\* insert issued
Handle(c, r) ==
    /\ req' = [req EXCEPT ![c] = r]
    /\ IF r.method # "POST"
         THEN /\ Respond(c, ErrorResponse(405, "Method not allowed"))
              /\ pc' = [pc EXCEPT ![c] = "done"]
              /\ UNCHANGED <<jobId, insertAttempts, issued>>
         ELSE IF MissingRequired(r.body)
           THEN /\ Respond(c, ErrorResponse(400, "Missing required fields"))
                /\ pc' = [pc EXCEPT ![c] = "done"]
                /\ UNCHANGED <<jobId, insertAttempts, issued>>
           ELSE /\ \E id \in uuidv4(issued) :
                     /\ jobId' = [jobId EXCEPT ![c] = id]
                     /\ issued' = issued \cup {id}
                /\ insertAttempts' = [insertAttempts EXCEPT ![c] = @ + 1]
                /\ pc' = [pc EXCEPT ![c] = "insert"]
                /\ UNCHANGED <<responses, connected>>
    /\ UNCHANGED <<error, sqsResult, inserted, sent, store, queue, clock>>

\* a request arrives and the handler runs up to its first await
Start(c) ==
    /\ pc[c] = "idle"
    /\ \A d \in Calls : d < c => pc[d] # "idle"
    /\ \E r \in Requests : Handle(c, r)

\* now(): the store's clock has moved on since the last insert, or has not;
\* the first row has no earlier row to tie with
Now == IF store = <<>> THEN {clock} ELSE {clock, clock + 1}

\* an upsert keyed on the job name: a row of the same name is replaced
InsertOkUpsert(c) ==
    /\ pc[c] = "insert"
    /\ \E t \in Now :
        /\ store' = Append(SelectSeq(store, LAMBDA r : r.name # Column(req[c].body.jobName)),
                           StoredRow(Row(jobId[c], req[c].body), t))
        /\ clock' = t
    /\ inserted' = [inserted EXCEPT ![c] = jobId[c]]
    /\ error' = [error EXCEPT ![c] = "null"]
    /\ pc' = [pc EXCEPT ![c] = "insertAck"]
    /\ UNCHANGED <<req, connected, jobId, sqsResult, insertAttempts, sent,
                   responses, queue, issued>>

\* the store performs the insert and acknowledges it
InsertOk(c) ==
    /\ pc[c] = "insert"
    /\ \E t \in Now :
        /\ store' = Append(store, StoredRow(Row(jobId[c], req[c].body), t))
        /\ clock' = t
    /\ inserted' = [inserted EXCEPT ![c] = jobId[c]]
    /\ error' = [error EXCEPT ![c] = "null"]
    /\ pc' = [pc EXCEPT ![c] = "insertAck"]
    /\ UNCHANGED <<req, connected, jobId, sqsResult, insertAttempts, sent,
                   responses, queue, issued>>

\* the store rejects the insert: nothing is written, { error } is set
InsertFail(c) ==
    /\ pc[c] = "insert"
    /\ error' = [error EXCEPT ![c] = "error"]
    /\ pc' = [pc EXCEPT ![c] = "insertAck"]
    /\ UNCHANGED <<req, connected, jobId, sqsResult, insertAttempts, inserted,
                   sent, responses, store, queue, issued, clock>>

\* lines 46-49: if (error) return res.status(500)...
ReturnInsertError(c, status) ==
    /\ Respond(c, ErrorResponse(status, "Failed to submit job"))
    /\ pc' = [pc EXCEPT ![c] = "done"]
    /\ UNCHANGED sent

\* lines 52-67: build the payload around id and hand it to sqsClient.send
SendMessage(c, id) ==
    /\ sent' = [sent EXCEPT ![c] = Append(@, Payload(id, req[c].body))]
    /\ pc' = [pc EXCEPT ![c] = "publish"]
    /\ UNCHANGED <<responses, connected>>

\* a handler without the error check: it publishes whatever the insert did
AfterInsertIgnoreError(c) ==
    /\ pc[c] = "insertAck"
    /\ SendMessage(c, jobId[c])
    /\ UNCHANGED <<req, jobId, error, sqsResult, insertAttempts,
                   inserted, store, queue, issued, clock>>

\* a handler that reports the insert failure as a client error
AfterInsertWrongStatus(c) ==
    /\ pc[c] = "insertAck"
    /\ IF error[c] = "error"
         THEN ReturnInsertError(c, 400)
         ELSE SendMessage(c, jobId[c])
    /\ UNCHANGED <<req, jobId, error, sqsResult, insertAttempts,
                   inserted, store, queue, issued, clock>>

\* a handler that puts another id than the row's into the payload
AfterInsertOtherPayloadId(c) ==
    /\ pc[c] = "insertAck"
    /\ IF error[c] = "error"
         THEN ReturnInsertError(c, 500)
         ELSE \E id \in UUIDs \ {jobId[c]} : SendMessage(c, id)
    /\ UNCHANGED <<req, jobId, error, sqsResult, insertAttempts,
                   inserted, store, queue, issued, clock>>

\* a handler that gives up when its caller has gone
AfterInsertIfConnected(c) ==
    /\ pc[c] = "insertAck"
    /\ connected[c]
    /\ IF error[c] = "error"
         THEN ReturnInsertError(c, 500)
         ELSE SendMessage(c, jobId[c])
    /\ UNCHANGED <<req, jobId, error, sqsResult, insertAttempts,
                   inserted, store, queue, issued, clock>>

\* a handler that reports the insert failure in the words of the queue failure
AfterInsertQueueMessage(c) ==
    /\ pc[c] = "insertAck"
    /\ IF error[c] = "error"
         THEN /\ Respond(c, ErrorResponse(500, "Failed to queue job"))
              /\ pc' = [pc EXCEPT ![c] = "done"]
              /\ UNCHANGED sent
         ELSE SendMessage(c, jobId[c])
    /\ UNCHANGED <<req, jobId, error, sqsResult, insertAttempts,
                   inserted, store, queue, issued, clock>>

\* a handler whose error branch answers but does not return
AfterInsertFallThrough(c) ==
    /\ pc[c] = "insertAck"
    /\ IF error[c] = "error"
         THEN /\ Respond(c, ErrorResponse(500, "Failed to submit job"))
              /\ sent' = [sent EXCEPT ![c] = Append(@, Payload(jobId[c], req[c].body))]
              /\ pc' = [pc EXCEPT ![c] = "publish"]
         ELSE SendMessage(c, jobId[c])
    /\ UNCHANGED <<req, jobId, error, sqsResult, insertAttempts,
                   inserted, store, queue, issued, clock>>

\* handler, lines 46-67: error check, payload, sqsClient.send issued
AfterInsert(c) ==
    /\ pc[c] = "insertAck"
    /\ IF error[c] = "error"
         THEN ReturnInsertError(c, 500)
         ELSE SendMessage(c, jobId[c])
    /\ UNCHANGED <<req, jobId, error, sqsResult, insertAttempts,
                   inserted, store, queue, issued, clock>>

\* SQS accepts the message and acknowledges it
PublishOk(c) ==
    /\ pc[c] = "publish"
    /\ queue' = queue (+) SetToBag({sent[c][Len(sent[c])]})
    /\ sqsResult' = [sqsResult EXCEPT ![c] = "ack"]
    /\ pc' = [pc EXCEPT ![c] = "publishAck"]
    /\ UNCHANGED <<req, connected, jobId, error, insertAttempts, inserted,
                   sent, responses, store, issued, clock>>

\* sqsClient.send throws; the message may or may not have reached the queue
PublishFail(c) ==
    /\ pc[c] = "publish"
    /\ \E delivered \in BOOLEAN :
        queue' = IF delivered THEN queue (+) SetToBag({sent[c][Len(sent[c])]}) ELSE queue
    /\ sqsResult' = [sqsResult EXCEPT ![c] = "throw"]
    /\ pc' = [pc EXCEPT ![c] = "publishAck"]
    /\ UNCHANGED <<req, connected, jobId, error, insertAttempts, inserted,
                   sent, responses, store, issued, clock>>

\* a handler whose catch block deletes the row it inserted
AfterPublishRollback(c) ==
    /\ pc[c] = "publishAck"
    /\ IF sqsResult[c] = "ack"
         THEN /\ Respond(c, OkResponse("Job submitted to queue successfully", jobId[c]))
              /\ UNCHANGED store
         ELSE /\ Respond(c, ErrorResponse(500, "Failed to queue job"))
              /\ store' = SelectSeq(store, LAMBDA r : r.id # jobId[c])
    /\ pc' = [pc EXCEPT ![c] = "done"]
    /\ UNCHANGED <<req, jobId, error, sqsResult, insertAttempts,
                   inserted, sent, queue, issued, clock>>

\* a handler whose catch block only logs and still answers 200
AfterPublishSwallow(c) ==
    /\ pc[c] = "publishAck"
    /\ Respond(c, OkResponse("Job submitted to queue successfully", jobId[c]))
    /\ pc' = [pc EXCEPT ![c] = "done"]
    /\ UNCHANGED <<req, jobId, error, sqsResult, insertAttempts,
                   inserted, sent, store, queue, issued, clock>>

\* a handler whose catch block marks the row it inserted as failed
AfterPublishMarkFailed(c) ==
    /\ pc[c] = "publishAck"
    /\ IF sqsResult[c] = "ack"
         THEN /\ Respond(c, OkResponse("Job submitted to queue successfully", jobId[c]))
              /\ UNCHANGED store
         ELSE /\ Respond(c, ErrorResponse(500, "Failed to queue job"))
              /\ store' = [i \in DOMAIN store |->
                              IF store[i].id = jobId[c]
                                THEN [store[i] EXCEPT !.status = "failed"]
                                ELSE store[i]]
    /\ pc' = [pc EXCEPT ![c] = "done"]
    /\ UNCHANGED <<req, jobId, error, sqsResult, insertAttempts,
                   inserted, sent, queue, issued, clock>>

\* a handler whose catch block sends the message once more
AfterPublishRetry(c) ==
    /\ pc[c] = "publishAck"
    /\ IF sqsResult[c] = "ack"
         THEN /\ Respond(c, OkResponse("Job submitted to queue successfully", jobId[c]))
              /\ pc' = [pc EXCEPT ![c] = "done"]
              /\ UNCHANGED sent
         ELSE IF Len(sent[c]) < 2
           THEN /\ sent' = [sent EXCEPT ![c] = Append(@, Payload(jobId[c], req[c].body))]
                /\ pc' = [pc EXCEPT ![c] = "publish"]
                /\ UNCHANGED <<responses, connected>>
           ELSE /\ Respond(c, ErrorResponse(500, "Failed to queue job"))
                /\ pc' = [pc EXCEPT ![c] = "done"]
                /\ UNCHANGED sent
    /\ UNCHANGED <<req, jobId, error, sqsResult, insertAttempts,
                   inserted, store, queue, issued, clock>>

\* handler, lines 66-72: answer 200 with the jobId, or 500 in the catch
AfterPublish(c) ==
    /\ pc[c] = "publishAck"
    /\ IF sqsResult[c] = "ack"
         THEN Respond(c, OkResponse("Job submitted to queue successfully", jobId[c]))
         ELSE Respond(c, ErrorResponse(500, "Failed to queue job"))
    /\ pc' = [pc EXCEPT ![c] = "done"]
    /\ UNCHANGED <<req, jobId, error, sqsResult, insertAttempts,
                   inserted, sent, store, queue, issued, clock>>

\* the caller goes away while its request is being handled; the handler
\* never looks at the connection
Disconnect(c) ==
    /\ pc[c] \in {"insert", "insertAck", "publish", "publishAck"}
    /\ connected[c]
    /\ connected' = [connected EXCEPT ![c] = FALSE]
    /\ UNCHANGED <<pc, req, jobId, error, sqsResult, insertAttempts, inserted,
                   sent, responses, store, queue, issued, clock>>

Next ==
    /\ \E c \in Calls :
        \/ Start(c)
        \/ InsertOk(c)
        \/ InsertFail(c)
        \/ AfterInsert(c)
        \/ PublishOk(c)
        \/ PublishFail(c)
        \/ AfterPublish(c)
    /\ UNCHANGED <<list, clientVars>>

Spec == Init /\ [][Next]_vars

\* the same with callers that may go away, and with the scheduling the
\* runtime gives: a continuation runs once its promise has settled
NextCancel ==
    \/ Next
    \/ \E c \in Calls : Disconnect(c) /\ UNCHANGED <<list, clientVars>>

Fairness ==
    \A c \in Calls : WF_vars(AfterInsert(c) /\ UNCHANGED <<list, clientVars>>)

CancelSpec == Init /\ [][NextCancel]_vars /\ Fairness

\* the next step of call c once its request has arrived: the store's or the
\* queue's reply, or the handler's continuation
CallStep(c) ==
    /\ \/ InsertOk(c)
       \/ InsertFail(c)
       \/ AfterInsert(c)
       \/ PublishOk(c)
       \/ PublishFail(c)
       \/ AfterPublish(c)
    /\ UNCHANGED <<list, clientVars>>

\* every store and queue call returns or throws, and the event loop runs
\* every continuation that is ready
Progress == \A c \in Calls : WF_vars(CallStep(c))

LiveSpec == Init /\ [][Next]_vars /\ Progress

(* --------------------------- listing handler ---------------------------- *)
(* pages/api/jobs.ts, lines 10-31: GET handler -- select * from jobs        *)
(* order by created_at desc, answer with the rows.  Handler invocations     *)
(* share nothing; one is followed at a time, while submit calls fill the    *)
(* table.                                                                   *)

Methods == {"GET", "POST"}

\* res.status(s).json({ error: e })
ListError(s, e) == [status |-> s, error |-> e, data |-> <<>>]

\* res.status(200).json(data || [])
ListOk(d) == [status |-> 200, error |-> "", data |-> d]

\* .order('created_at', { ascending: false }): every arrangement of the rows
\* with created_at never increasing; the query names no second sort key, so
\* the store is free in how it arranges rows of equal created_at
Listings(rows) ==
    LET n == Len(rows)
        Arrangements ==
            { p \in [1..n -> 1..n] :
                /\ \A i, j \in 1..n : i # j => p[i] # p[j]
                /\ \A i, j \in 1..n :
                      i < j => rows[p[i]].created_at >= rows[p[j]].created_at }
    IN  { [i \in 1..n |-> rows[p[i]]] : p \in Arrangements }

\* a listing handler that queries the store whatever the method
ListHandleAnyMethod(m) == [NoList EXCEPT !.pc = "query", !.method = m]

\* handler, lines 10-19, on a request of method m: method check, query issued
ListHandle(m) ==
    IF m # "GET"
      THEN [NoList EXCEPT !.pc = "done", !.method = m,
              !.responses = <<ListError(405, "Method not allowed")>>]
      ELSE [NoList EXCEPT !.pc = "query", !.method = m]

\* a request arrives at the listing handler
ListStart ==
    /\ list.pc \in {"idle", "done"}
    /\ \E m \in Methods : list' = ListHandle(m)
    /\ UNCHANGED <<submitVars, clientVars>>

\* the store runs the query on the table as it is and returns the rows
QueryOk ==
    /\ list.pc = "query"
    /\ \E d \in Listings(store) :
        list' = [list EXCEPT !.pc = "queryAck", !.error = "null",
                             !.data = d, !.asked = store]
    /\ UNCHANGED <<submitVars, clientVars>>

\* the store answers the query with { error }
QueryFail ==
    /\ list.pc = "query"
    /\ list' = [list EXCEPT !.pc = "queryAck", !.error = "error"]
    /\ UNCHANGED <<submitVars, clientVars>>

\* the awaited query rejects
QueryThrow ==
    /\ list.pc = "query"
    /\ list' = [list EXCEPT !.pc = "queryAck", !.error = "throw"]
    /\ UNCHANGED <<submitVars, clientVars>>

\* a handler that answers a failed query with an empty list
ListAnswerEmpty(l) ==
    CASE l.error = "error" -> ListOk(<<>>)
      [] l.error = "throw" -> ListOk(<<>>)
      [] OTHER -> ListOk(l.data)

\* the answer of lines 21-30 to the outcome of the query
ListAnswer(l) ==
    CASE l.error = "error" -> ListError(500, "Failed to fetch jobs")
      [] l.error = "throw" -> ListError(500, "Internal server error")
      [] OTHER -> ListOk(l.data)

\* handler, lines 21-30: answer with the rows or with a server error
ListRespond ==
    /\ list.pc = "queryAck"
    /\ list' = [list EXCEPT !.pc = "done",
                            !.responses = Append(@, ListAnswer(list))]
    /\ UNCHANGED <<submitVars, clientVars>>

\* the submit handler up to the queue's reply: the steps that write to the
\* table and to the queue
SubmitWrites ==
    /\ \E c \in Calls :
        \/ Start(c)
        \/ InsertOk(c)
        \/ InsertFail(c)
        \/ AfterInsert(c)
        \/ PublishOk(c)
        \/ PublishFail(c)
    /\ UNCHANGED <<list, clientVars>>

NextList ==
    \/ SubmitWrites
    \/ ListStart
    \/ QueryOk
    \/ QueryFail
    \/ QueryThrow
    \/ ListRespond

ListSpec == Init /\ [][NextList]_vars

(* ------------------------- requests of any method ----------------------- *)

\* requests that would pass the handler's check, sent with each method
AnyMethodRequests ==
    { Request(m, b) : m \in {"POST", "GET", "PUT", "DELETE"}, b \in PassingBodies }

\* a request of any method arrives at the submit handler
StartAnyMethod(c) ==
    /\ pc[c] = "idle"
    /\ \A d \in Calls : d < c => pc[d] # "idle"
    /\ \E r \in AnyMethodRequests : Handle(c, r)

NextMethod ==
    \/ /\ \E c \in Calls :
            \/ StartAnyMethod(c)
            \/ InsertOk(c)
            \/ InsertFail(c)
            \/ AfterInsert(c)
            \/ PublishOk(c)
            \/ PublishFail(c)
            \/ AfterPublish(c)
       /\ UNCHANGED <<list, clientVars>>
    \/ ListStart
    \/ QueryFail
    \/ QueryThrow
    \/ ListRespond

MethodSpec == Init /\ [][NextMethod]_vars

(* ------------------------------- JobForm ------------------------------- *)

\* Number(s), for the strings the form's number inputs hold here
NumberOf(s) ==
    CASE s = "" -> 0
      [] s = "1" -> 1
      [] s = "500" -> 500
      [] s = "1000" -> 1000

\* what the user has typed when the form is submitted: every field valid,
\* learning rate and description filled in or left empty
FormFields ==
    [jobName : {"run", "eval"},
     modelType : {"ppo", "xyz"},
     trainingSteps : {"1000", "500"},
     learningRate : {"1", ""},
     description : {"first run", ""}]

\* const payload = { name, model_type, training_steps, learning_rate,
\* description }
FormPayload(f) ==
    [name |-> Str(f.jobName),
     model_type |-> Str(f.modelType),
     training_steps |-> Num(NumberOf(f.trainingSteps)),
     learning_rate |-> Num(NumberOf(f.learningRate)),
     description |-> Str(f.description)]

\* o.k of a JSON object: undefined when the object has no such key
Field(o, k) == IF k \in DOMAIN o THEN o[k] ELSE Undef

\* const { jobName, modelType, trainingSteps, learningRate, description }
\*   = req.body
Destructure(o) ==
    Body(Field(o, "jobName"), Field(o, "modelType"), Field(o, "trainingSteps"),
         Field(o, "learningRate"), Field(o, "description"))

\* handleSubmit up to its fetch: loading, no message, the payload posted
FormSubmit ==
    /\ form.pc \in {"idle", "done"}
    /\ \E f \in FormFields :
        form' = [form EXCEPT
                   !.pc = "fetch",
                   !.jobName = f.jobName, !.modelType = f.modelType,
                   !.trainingSteps = f.trainingSteps,
                   !.learningRate = f.learningRate,
                   !.description = f.description,
                   !.loading = TRUE,
                   !.message = NoMessage,
                   !.request = [url |-> "/api/jobs", method |-> "POST",
                                body |-> FormPayload(f)],
                   !.handler = "",
                   !.call = 0]
    /\ UNCHANGED <<submitVars, list, dash>>

\* the request reaches the server: pages/api/jobs.ts serves /api/jobs,
\* pages/api/submit.ts serves /api/submit
Route ==
    /\ form.pc = "fetch"
    /\ IF form.request.url = "/api/jobs"
         THEN /\ list.pc \in {"idle", "done"}
              /\ list' = ListHandle(form.request.method)
              /\ form' = [form EXCEPT !.pc = "await", !.handler = "jobs"]
              /\ UNCHANGED submitVars
         ELSE /\ form.request.url = "/api/submit"
              /\ \E c \in Calls :
                    /\ pc[c] = "idle"
                    /\ \A d \in Calls : d < c => pc[d] # "idle"
                    /\ Handle(c, Request(form.request.method,
                                         Destructure(form.request.body)))
                    /\ form' = [form EXCEPT !.pc = "await",
                                            !.handler = "submit", !.call = c]
              /\ UNCHANGED list
    /\ UNCHANGED dash

\* fetch rejects: the catch block shows the failure
FetchThrow ==
    /\ form.pc = "fetch"
    /\ form' = [form EXCEPT !.pc = "done", !.loading = FALSE,
                            !.message = [kind |-> "failed", status |-> 0]]
    /\ UNCHANGED <<submitVars, list, dash>>

\* res.ok
Ok(status) == status \in 200..299

\* handleSubmit after its fetch: a response that is not ok is thrown and
\* shown as a failure; an ok one is shown as a success and clears the form
FormShow(r) ==
    IF ~Ok(r.status)
      THEN [form EXCEPT !.pc = "done", !.loading = FALSE,
                        !.message = [kind |-> "failed", status |-> r.status]]
      ELSE [form EXCEPT !.pc = "done", !.loading = FALSE,
                        !.jobName = "", !.modelType = "", !.trainingSteps = "",
                        !.learningRate = "", !.description = "",
                        !.message = [kind |-> "submitted", status |-> r.status]]

FormReceive ==
    /\ form.pc = "await"
    /\ IF form.handler = "jobs"
         THEN /\ list.pc = "done"
              /\ form' = FormShow(list.responses[1])
         ELSE /\ Done(form.call)
              /\ form' = FormShow(Answer(form.call))
    /\ UNCHANGED <<submitVars, list, dash>>

NextForm ==
    \/ FormSubmit
    \/ Route
    \/ FetchThrow
    \/ FormReceive

FormSpec == Init /\ [][NextForm]_vars

(* ----------------------------- DashboardPage --------------------------- *)

\* the table as it was at some moment up to now: rows are only ever appended
Earlier(rows) == { SubSeq(rows, 1, k) : k \in 0..Len(rows) }

\* useEffect: the first fetchJobs(), issued when the page has mounted
DashMount ==
    /\ dash.calls = 0
    /\ dash' = [dash EXCEPT !.calls = 1, !.pending = 1]
    /\ UNCHANGED <<submitVars, list, form>>

\* handleRefresh: fetchJobs(true), from the button that is disabled while
\* refreshing
DashRefresh ==
    /\ dash.calls >= 1
    /\ dash.calls < MaxFetches
    /\ ~dash.refreshing
    /\ dash' = [dash EXCEPT !.refreshing = TRUE, !.calls = @ + 1,
                            !.pending = @ + 1]
    /\ UNCHANGED <<submitVars, list, form>>

\* a fetchJobs whose response is not ok and that empties the list
DashNotOkClears ==
    /\ dash.pending > 0
    /\ \E r \in {ListAnswer([NoList EXCEPT !.error = e]) : e \in {"error", "throw"}} :
        /\ ~Ok(r.status)
        /\ dash' = [dash EXCEPT !.jobs = <<>>,
                                !.loading = FALSE, !.refreshing = FALSE,
                                !.pending = @ - 1, !.last = "notOk"]
    /\ UNCHANGED <<submitVars, list, form>>

\* fetchJobs after its fetch, response ok: the rows the listing handler
\* read are shown; finally, both flags are cleared
DashOk ==
    /\ dash.pending > 0
    /\ \E rows \in Earlier(store) : \E d \in Listings(rows) :
        /\ Ok(ListOk(d).status)
        /\ dash' = [dash EXCEPT !.jobs = ListOk(d).data,
                                !.loading = FALSE, !.refreshing = FALSE,
                                !.pending = @ - 1, !.last = "ok"]
    /\ UNCHANGED <<submitVars, list, form>>

\* fetchJobs after its fetch, response not ok (the listing handler met a
\* failing store): logged; finally, both flags are cleared
DashNotOk ==
    /\ dash.pending > 0
    /\ \E r \in {ListAnswer([NoList EXCEPT !.error = e]) : e \in {"error", "throw"}} :
        /\ ~Ok(r.status)
        /\ dash' = [dash EXCEPT !.loading = FALSE, !.refreshing = FALSE,
                                !.pending = @ - 1, !.last = "notOk"]
    /\ UNCHANGED <<submitVars, list, form>>

\* fetch rejects, or response.json() does: caught and logged; finally, both
\* flags are cleared
DashThrow ==
    /\ dash.pending > 0
    /\ dash' = [dash EXCEPT !.loading = FALSE, !.refreshing = FALSE,
                            !.pending = @ - 1, !.last = "thrown"]
    /\ UNCHANGED <<submitVars, list, form>>

\* the submit handler up to the store's reply: the steps that write rows,
\* which is all the dashboard can see of it
SubmitInserts ==
    /\ \E c \in Calls :
        \/ Start(c)
        \/ InsertOk(c)
        \/ InsertFail(c)
    /\ UNCHANGED <<list, clientVars>>

NextDash ==
    \/ SubmitInserts
    \/ DashMount
    \/ DashRefresh
    \/ DashOk
    \/ DashNotOk
    \/ DashThrow

DashSpec == Init /\ [][NextDash]_vars

(* ----------------------- validation, field by field -------------------- *)

\* submissions over every field: names, model types, training steps of each
\* kind, learning rate and description there or not
FieldBodies ==
    { Body(jn, mt, ts, lr, d) :
        jn \in {Str("run"), Str("")},
        mt \in {Str("ppo"), Str("xyz"), Undef},
        ts \in {Num(1000), Num(0), Num(0 - 5), Str("abc"), Undef},
        lr \in {Num(1), Undef},
        d \in {Str("first run"), Undef} }

\* one submission after the other: a request arrives when the calls before
\* it have their answer from the store
StartField(c) ==
    /\ pc[c] = "idle"
    /\ \A d \in Calls : d < c => pc[d] \in {"insertAck", "done"}
    /\ \E b \in FieldBodies : Handle(c, Request("POST", b))

NextField ==
    /\ \E c \in Calls :
        \/ StartField(c)
        \/ InsertOk(c)
        \/ InsertFail(c)
    /\ UNCHANGED <<list, clientVars>>

FieldSpec == Init /\ [][NextField]_vars

\* the submit handler whole, beside listing calls that meet a failing store
NextFailure ==
    \/ Next
    \/ ListStart
    \/ QueryFail
    \/ QueryThrow
    \/ ListRespond

FailureSpec == Init /\ [][NextFailure]_vars

(* --------------------------- reading the state -------------------------- *)

Succeeded(c) == Done(c) /\ Len(responses[c]) = 1 /\ Answer(c).status = 200

RowsOf(id) == { i \in DOMAIN store : store[i].id = id }
HasRow(id) == RowsOf(id) # {}
Events == BagToSet(queue)
HasEvent(id) == \E m \in Events : m.jobId = id

\* the call went past the handler's validation
PassedValidation(c) ==
    /\ Started(c)
    /\ req[c].method = "POST"
    /\ ~MissingRequired(req[c].body)

\* strings that read as a number
NumericStrings == {"100"}

\* the value is a number or coerces to one
Numeric(v) == v.t = "number" \/ (v.t = "string" /\ v.s \in NumericStrings)

(* -------------------------------- claims -------------------------------- *)

\* C1: write-before-publish.  Every message handed to the queue publisher
\* carries the id of a row that is already in the store, and a call hands a
\* message over only after its own insert was acknowledged without error.
C1_WriteBeforePublish ==
    \A c \in Calls :
        Len(sent[c]) > 0 =>
            /\ error[c] = "null"
            /\ inserted[c] = jobId[c]
            /\ \A k \in 1..Len(sent[c]) : HasRow(sent[c][k].jobId)

\* a message is with the publisher while another call's insert has failed
C1_Witness ==
    \E c, d \in Calls :
        /\ pc[c] = "publish" /\ HasRow(sent[c][1].jobId)
        /\ error[d] = "error"

\* C2: a call whose insert failed makes no publish attempt, leaves no row
\* in the store and answers its caller with a server error.
C2_InsertFailureAborts ==
    \A c \in Calls :
        error[c] = "error" =>
            /\ Len(sent[c]) = 0
            /\ ~HasRow(jobId[c])
            /\ ~HasEvent(jobId[c])
            /\ Done(c) => /\ Len(responses[c]) = 1
                          /\ Answer(c).status = 500

C2_Witness ==
    \E c \in Calls : error[c] = "error" /\ Done(c) /\ Answer(c).status = 500

\* C3: when the insert succeeded and the publish failed, the caller gets an
\* error and the row is still in the store, status 'queued', from then on.
C3_PublishFailureKeepsRecord ==
    \A c \in Calls :
        (error[c] = "null" /\ sqsResult[c] = "throw") =>
            /\ \E i \in RowsOf(jobId[c]) :
                 store[i] = StoredRow(Row(jobId[c], req[c].body), store[i].created_at)
            /\ \A i \in RowsOf(jobId[c]) : store[i].status = "queued"
            /\ Done(c) => /\ Len(responses[c]) = 1
                          /\ Answer(c).status >= 400
                          /\ Answer(c).error # ""

C3_Witness ==
    \E c \in Calls :
        /\ sqsResult[c] = "throw" /\ Done(c)
        /\ HasRow(jobId[c]) /\ ~HasEvent(jobId[c])

\* C4: a call answers success only if its row was inserted and its publish
\* acknowledged; so every row without an event in the queue belongs to a
\* call that is still in flight or that answered with the queue error.
C4_NeverSilentlyLost ==
    /\ \A c \in Calls :
          Succeeded(c) =>
              /\ error[c] = "null" /\ HasRow(jobId[c])
              /\ sqsResult[c] = "ack" /\ HasEvent(jobId[c])
              /\ Answer(c).jobId = jobId[c]
    /\ \A i \in DOMAIN store :
          ~HasEvent(store[i].id) =>
              \E c \in Calls :
                  /\ inserted[c] = store[i].id
                  /\ \/ ~Done(c)
                     \/ responses[c] = <<ErrorResponse(500, "Failed to queue job")>>

\* one call has succeeded, another has left a row without an event and has
\* told its caller so
C4_Witness ==
    \E c, d \in Calls :
        /\ Succeeded(c)
        /\ Done(d) /\ HasRow(jobId[d]) /\ ~HasEvent(jobId[d])
        /\ Answer(d).status = 500

\* C5: on success the id in the answer is the id of the row the call
\* inserted and the id in the message the call published.
C5_FieldIdentity ==
    \A c \in Calls :
        Succeeded(c) =>
            /\ Answer(c).jobId # NoId
            /\ Answer(c).jobId = inserted[c]
            /\ HasRow(Answer(c).jobId)
            /\ Len(sent[c]) = 1
            /\ sent[c][1].jobId = Answer(c).jobId
            /\ sent[c][1] \in Events

C5_Witness ==
    \E c \in Calls :
        /\ Succeeded(c)
        /\ HasEvent(Answer(c).jobId)
        /\ \E d \in Calls : d # c /\ jobId[d] \notin {NoId, jobId[c]}

\* C6: a call with a missing name or with training steps that are not a
\* number is answered 400 and makes no insert and no publish attempt.
C6_ValidationRejects ==
    \A c \in Calls :
        ( /\ Started(c)
          /\ req[c].method = "POST"
          /\ \/ ~Truthy(req[c].body.jobName)
             \/ ~Numeric(req[c].body.trainingSteps) ) =>
            /\ insertAttempts[c] = 0
            /\ Len(sent[c]) = 0
            /\ Done(c) /\ Answer(c).status = 400

\* C7: two calls with the same field values whose inserts both succeed have
\* different ids and leave two different rows.
C7_NoDeduplication ==
    \A c, d \in Calls :
        ( /\ c # d
          /\ req[c] = req[d]
          /\ error[c] = "null" /\ error[d] = "null" ) =>
            /\ jobId[c] # jobId[d]
            /\ \E i \in RowsOf(jobId[c]), j \in RowsOf(jobId[d]) : i # j
            /\ Len(store) >= 2

C7_Witness ==
    \E c, d \in Calls :
        /\ c # d /\ req[c] = req[d]
        /\ error[c] = "null" /\ error[d] = "null"
        /\ Done(c) /\ Done(d)

\* C8: concurrent calls all have different ids, the row of every call whose
\* insert succeeded is in the store as inserted, and the store holds exactly
\* as many rows as inserts succeeded.
C8_ConcurrentIndependent ==
    /\ \A c, d \in Calls :
          (c # d /\ jobId[c] # NoId /\ jobId[d] # NoId) => jobId[c] # jobId[d]
    /\ \A c \in Calls :
          error[c] = "null" =>
              /\ Cardinality(RowsOf(jobId[c])) = 1
              /\ \A i \in RowsOf(jobId[c]) :
                   store[i] = StoredRow(Row(jobId[c], req[c].body), store[i].created_at)
    /\ Len(store) = Cardinality({ c \in Calls : error[c] = "null" })

\* all calls were in flight together and all inserts succeeded
C8_Witness ==
    /\ \A c \in Calls : pc[c] = "insertAck" /\ error[c] = "null"
    /\ \E c, d \in Calls : req[c].body # req[d].body
    /\ Len(store) = NumCalls

\* C9: a call that passes validation issues exactly one insert and at most
\* one publish, whatever their outcome.
C9_SingleAttempt ==
    \A c \in Calls :
        /\ insertAttempts[c] <= 1
        /\ Len(sent[c]) <= 1
        /\ PassedValidation(c) => insertAttempts[c] = 1
        /\ (Done(c) /\ error[c] = "null") => Len(sent[c]) = 1
        /\ Cardinality(RowsOf(jobId[c])) <= 1

C9_Witness ==
    \E c, d \in Calls :
        /\ Done(c) /\ sqsResult[c] = "throw" /\ insertAttempts[c] = 1
        /\ Done(d) /\ error[d] = "error" /\ insertAttempts[d] = 1

\* C10: once a call's insert has succeeded its publish is eventually
\* attempted, whether or not its caller is still there.  A successful insert
\* and a publish attempt both stay on record, so "each success leads to an
\* attempt" is the same as: from some point on, every call whose insert has
\* succeeded has made its attempt.
C10_PublishAttempted ==
    <>[](\A c \in Calls : error[c] = "null" => Len(sent[c]) >= 1)

\* the caller left between the insert and the publish, and the publish was
\* attempted all the same
C10_Witness ==
    \E c \in Calls :
        /\ ~connected[c] /\ pc[c] = "publish"
        /\ error[c] = "null" /\ Len(sent[c]) = 1

\* where a row stands in a sequence of rows
Pos(rows, r) == CHOOSE k \in DOMAIN rows : rows[k] = r

\* the listing call has its rows
Listed == list.pc \in {"queryAck", "done"} /\ list.error = "null"

\* C11: the listing holds every row the table had when it was queried,
\* newest first by created_at, rows of equal created_at in the order they
\* were inserted; and that is what the caller is answered.
C11_ListNewestFirst ==
    Listed =>
        /\ Len(list.data) = Len(list.asked)
        /\ \A k \in DOMAIN list.asked : \E i \in DOMAIN list.data :
              list.data[i] = list.asked[k]
        /\ \A i, j \in DOMAIN list.data :
              i < j =>
                  /\ list.data[i].created_at >= list.data[j].created_at
                  /\ list.data[i].created_at = list.data[j].created_at =>
                        Pos(list.asked, list.data[i]) < Pos(list.asked, list.data[j])
        /\ list.pc = "done" => list.responses = <<ListOk(list.data)>>

\* the listing call met a failing store
ListFailed == list.error \in {"error", "throw"}

ClientError == 400..499
ServerError == 500..599

\* C12: every failure shows in the response.  A rejected submission is
\* answered with a client error, a failed insert and a failed publish with
\* server errors, and the two answers differ; a listing that met a failing
\* store is answered with a server error; whoever is answered 200 met no
\* failure.
C12_FailuresSurfaced ==
    /\ \A c \in Calls :
          Done(c) =>
            /\ Len(responses[c]) = 1
            /\ (req[c].method = "POST" /\ MissingRequired(req[c].body))
                  => Answer(c).status \in ClientError
            /\ error[c] = "error" => Answer(c).status \in ServerError
            /\ sqsResult[c] = "throw" => Answer(c).status \in ServerError
            /\ Answer(c).status = 200 =>
                  /\ ~MissingRequired(req[c].body)
                  /\ error[c] = "null"
                  /\ sqsResult[c] = "ack"
    /\ \A c, d \in Calls :
          (Done(c) /\ Done(d) /\ error[c] = "error" /\ sqsResult[d] = "throw")
            => Answer(c) # Answer(d)
    /\ (list.pc = "done" /\ ListFailed) =>
          /\ Len(list.responses) = 1
          /\ list.responses[1].status \in ServerError

C12_Witness ==
    /\ \E c, d \in Calls :
          /\ Done(c) /\ error[c] = "error"
          /\ Done(d) /\ sqsResult[d] = "throw"
    /\ list.pc = "done" /\ ListFailed

\* the event and the row hold the same five values; a key the event's JSON
\* leaves out stands against a NULL column
SameFields(m, r) ==
    /\ Column(m.jobName) = r.name
    /\ Column(m.modelType) = r.model_type
    /\ Column(m.trainingSteps) = r.training_steps
    /\ Column(m.learningRate) = r.learning_rate
    /\ Column(m.description) = r.description

\* C13: every event in the queue was published by a call that inserted a
\* row; the event's jobId is that row's id and its name, model type,
\* training steps, learning rate and description are the row's.
C13_EventMatchesRecord ==
    \A m \in Events :
        \E c \in Calls :
            /\ m \in { sent[c][k] : k \in DOMAIN sent[c] }
            /\ inserted[c] = m.jobId
            /\ RowsOf(m.jobId) # {}
            /\ \A i \in RowsOf(m.jobId) : SameFields(m, store[i])

C13_Witness ==
    /\ \E m \in Events : m.description.t = "string" /\ HasRow(m.jobId)
    /\ \E m \in Events : m.learningRate.t = "undefined" /\ HasRow(m.jobId)

\* C14: no step of the submit handler or of the listing handler changes a
\* row the table already has, its status least of all; a row that is new
\* has status 'queued'.
C14_RecordsNeverUpdated ==
    [][ /\ \A i \in DOMAIN store :
              i \in DOMAIN store' /\ store'[i] = store[i]
        /\ \A i \in DOMAIN store' \ DOMAIN store :
              store'[i].status = "queued" ]_vars

\* a call has ended in a queue failure and a listing call has ended, with
\* two rows in the table
C14_Witness ==
    /\ Len(store) = 2
    /\ \E c \in Calls :
          /\ Done(c) /\ sqsResult[c] = "throw"
          /\ \A i \in RowsOf(jobId[c]) : store[i].status = "queued"
    /\ list.pc = "done"

\* C15: a step of the listing handler, whether its query succeeds or fails,
\* leaves the rows of the table and the events of the queue as they were;
\* and a listing call whose query failed is answered once, with a server
\* error and not with a successful empty list.
C15_ListingReadOnly ==
    [][ list' # list =>
          /\ store' = store
          /\ queue' = queue
          /\ (list'.pc = "done" /\ list'.error \in {"error", "throw"}) =>
                /\ Len(list'.responses) = 1
                /\ list'.responses[1].status \in ServerError
                /\ list'.responses[1] # ListOk(<<>>) ]_vars

\* a listing call has failed and has been answered while the table holds
\* rows and the queue an event
C15_Witness ==
    /\ list.pc = "done" /\ ListFailed
    /\ Len(store) >= 1
    /\ Events # {}

\* C16: every row of the table has a name that is not empty, a model type,
\* and training steps that are a number, not negative.
C16_StoredRowsValid ==
    \A i \in DOMAIN store :
        /\ store[i].name.t = "string" /\ store[i].name.s # ""
        /\ store[i].model_type.t \notin {"undefined", "null"}
        /\ Numeric(store[i].training_steps)
        /\ store[i].training_steps.t = "number" => store[i].training_steps.n >= 0

\* a submission the contract calls valid: a name, a model type, and
\* training steps that are a number, not negative
ValidBody(b) ==
    /\ b.jobName.t = "string" /\ b.jobName.s # ""
    /\ b.modelType.t = "string" /\ b.modelType.s # ""
    /\ b.trainingSteps.t = "number" /\ b.trainingSteps.n >= 0

\* C17: no valid submission is rejected by the handler's check, training
\* steps of 0 included, whatever its model type and whether or not it has a
\* learning rate and a description.
C17_ValidNeverRejected ==
    \A c \in Calls :
        (Started(c) /\ req[c].method = "POST" /\ ValidBody(req[c].body)) =>
            /\ pc[c] # "done"
            /\ insertAttempts[c] = 1

\* call c ended in a queue failure and call d, with the same values, succeeded
Resubmitted(c, d) ==
    /\ c # d
    /\ Done(c) /\ sqsResult[c] = "throw"
    /\ Succeeded(d)
    /\ req[d] = req[c]

\* the table has one row for each of the two calls, under two ids, and the
\* first call's row is still 'queued'
TwoRecords(c, d) ==
    /\ jobId[c] # jobId[d]
    /\ Cardinality(RowsOf(jobId[c])) = 1
    /\ Cardinality(RowsOf(jobId[d])) = 1
    /\ \A i \in RowsOf(jobId[c]) : store[i].status = "queued"

\* C18 as stated: after a resubmission the table has two records under two
\* ids, the first still 'queued', and the queue has no event for the first.
C18_FirstRecordHasNoEvent ==
    \A c, d \in Calls :
        Resubmitted(c, d) =>
            /\ TwoRecords(c, d)
            /\ ~HasEvent(jobId[c])

\* C18, amended: after a resubmission the table has two records under two
\* ids, the first still 'queued'; each call made one publish attempt, for
\* its own record, and the first record was not published again: the queue
\* has an event for it at most once, and only the one the failed send
\* carried.
C18_ResubmissionDuplicates ==
    \A c, d \in Calls :
        Resubmitted(c, d) =>
            /\ TwoRecords(c, d)
            /\ Len(sent[c]) = 1 /\ sent[c][1].jobId = jobId[c]
            /\ Len(sent[d]) = 1 /\ sent[d][1].jobId = jobId[d]
            /\ \A m \in Events : m.jobId = jobId[c] => m = sent[c][1]
            /\ CopiesIn(sent[c][1], queue) <= 1
            /\ CopiesIn(sent[d][1], queue) = 1

\* a resubmission has succeeded and the first record has no event
C18_Witness ==
    \E c, d \in Calls :
        /\ c < d
        /\ Resubmitted(c, d)
        /\ ~HasEvent(jobId[c])
        /\ HasEvent(jobId[d])

\* the form's request has reached a handler
Routed == form.pc \in {"await", "done"} /\ form.handler # ""

\* C19: a submission of the form with valid fields reaches the submit
\* handler, as a POST whose body has the fields the handler reads; and when
\* the form has shown its answer, the table has one row and the queue one
\* event, with the values of the form.
C19_FormReachesCoordinator ==
    /\ Routed =>
          /\ form.handler = "submit"
          /\ req[form.call].method = "POST"
          /\ ~MissingRequired(req[form.call].body)
    /\ (Routed /\ form.pc = "done") =>
          /\ form.message.kind = "submitted"
          /\ Len(store) = 1
          /\ store[1].name = form.request.body.name
          /\ Cardinality(Events) = 1

\* C20: when a fetchJobs call ends, the loading and the refreshing flag are
\* both false, whether it got the rows or not; and when it ends without
\* them (response not ok, or an error thrown) the list of jobs on display
\* is the one that was there.
C20_DashboardSurvivesFailure ==
    [][ dash'.pending < dash.pending =>
          /\ ~dash'.loading
          /\ ~dash'.refreshing
          /\ dash'.last \in {"notOk", "thrown"} => dash'.jobs = dash.jobs ]_vars

\* a fetch has failed with jobs on display and another fetch in flight
C20_Witness ==
    /\ dash.last \in {"notOk", "thrown"}
    /\ dash.jobs # <<>>
    /\ dash.pending >= 1
    /\ ~dash.loading /\ ~dash.refreshing

\* C21: a request to the submit handler that is not a POST is answered 405
\* and nothing else: no id, no insert, no message, though its body would
\* pass; a request to the listing handler that is not a GET is answered 405
\* and the store is never queried.
C21_WrongMethodNoEffect ==
    /\ \A c \in Calls :
          (Started(c) /\ req[c].method # "POST") =>
            /\ Done(c)
            /\ responses[c] = <<ErrorResponse(405, "Method not allowed")>>
            /\ jobId[c] = NoId
            /\ insertAttempts[c] = 0
            /\ inserted[c] = NoId
            /\ sent[c] = <<>>
    /\ Len(store) = Cardinality({ c \in Calls : inserted[c] # NoId })
    /\ \A m \in Events : \E c \in Calls :
          req[c].method = "POST" /\ m \in { sent[c][k] : k \in DOMAIN sent[c] }
    /\ list.method \notin {"", "GET"} =>
          /\ list.pc = "done"
          /\ list.responses = <<ListError(405, "Method not allowed")>>
          /\ list.error = "pending"
          /\ list.data = <<>>

\* a PUT whose body would pass has been answered beside a POST that left a
\* row and an event, and a POST to the listing handler has been answered
C21_Witness ==
    /\ \E c, d \in Calls :
          /\ Done(c) /\ req[c].method = "PUT" /\ ~MissingRequired(req[c].body)
          /\ Succeeded(d)
    /\ Len(store) = 1
    /\ Cardinality(Events) = 1
    /\ list.method = "POST" /\ list.pc = "done"

\* the five answers of the submit handler
Answers ==
    { ErrorResponse(405, "Method not allowed"),
      ErrorResponse(400, "Missing required fields"),
      ErrorResponse(500, "Failed to submit job"),
      ErrorResponse(500, "Failed to queue job") }
    \cup { OkResponse("Job submitted to queue successfully", id) : id \in UUIDs }

====
